---- MODULE Spec2Model ----
(***************************************************************************)
(* Game 1 ("Glac an Giomach") of CS4099-GAME: the lobster-trapping engine.  *)
(*                                                                         *)
(* The model follows src/unnamed/part_002 (the current game script; the    *)
(* older src/public/game.js has the same Game 1 logic with other delays).  *)
(* It covers the GAME1 screen, where #game1-board and #cairn-spotlight     *)
(* exist, so render() always produces the lobster tile.  Presentation-only *)
(* state (rotation, speech bubbles, jump counter, CSS classes, sounds) is  *)
(* left out: no decision of the engine reads it.                           *)
(***************************************************************************)
EXTENDS Integers, Sequences, FiniteSets, TLC

(***************************************************************************)
(* Grid topology (HexGridSquare)                                           *)
(***************************************************************************)
gridWidth == 11
gridHeight == 10

HexGridSquare(x, y) == [x |-> x, y |-> y]

\* hash(): the key "x,y" of a square; keys are modelled as pairs <<x, y>>.
hash(sq) == <<sq.x, sq.y>>

\* key.split(',').map(Number) followed by new HexGridSquare(cx, cy)
squareOfKey(key) == HexGridSquare(key[1], key[2])

\* initializeBoard(): the keys of boardSquares
boardSquares == (0..(gridWidth - 1)) \X (0..(gridHeight - 1))

\* The two fixed offset tables, selected by row parity (JS: y % 2 === 1).
oddDirections == << <<-1, 0>>, <<1, 0>>, <<0, -1>>, <<1, -1>>, <<0, 1>>, <<1, 1>> >>
evenDirections == << <<-1, 0>>, <<1, 0>>, <<-1, -1>>, <<0, -1>>, <<-1, 1>>, <<0, 1>> >>

\* JS remainder: the sign follows the dividend, so -1 % 2 is -1, not 1.
jsRem2(n) == IF n >= 0 THEN n % 2 ELSE -((-n) % 2)

\* getNeighbors with the offsets taken in the opposite order.
getNeighborsBackwards(sq) ==
  LET directions == IF jsRem2(sq.y) = 1 THEN oddDirections ELSE evenDirections
  IN [i \in 1..6 |-> HexGridSquare(sq.x + directions[7 - i][1], sq.y + directions[7 - i][2])]

\* getNeighbors with the offsets of an odd row taken on every row.
getNeighborsOddOnly(sq) ==
  [i \in 1..6 |-> HexGridSquare(sq.x + oddDirections[i][1], sq.y + oddDirections[i][2])]

getNeighbors(sq) ==
  LET directions == IF jsRem2(sq.y) = 1 THEN oddDirections ELSE evenDirections
  IN [i \in 1..6 |-> HexGridSquare(sq.x + directions[i][1], sq.y + directions[i][2])]

\* The edge test of findShortestEscapePath and getNextStep.
isEdge(sq) ==
  sq.x = 0 \/ sq.x = gridWidth - 1 \/ sq.y = 0 \/ sq.y = gridHeight - 1

(***************************************************************************)
(* PathFinder (LobsterToken.findShortestEscapePath / getNextStep)          *)
(***************************************************************************)
NoPath == [found |-> FALSE, path |-> <<>>]

\* parent: the Map of the search, as a function on boardSquares; a key the
\* Map does not hold has the value Unvisited, the start key has null.
Unvisited == <<-1>>
NullKey == <<>>

\* reconstructPath with path.push in place of path.unshift: edge square first.
RECURSIVE reconstructPathFromEdge(_, _, _)
reconstructPathFromEdge(k, parent, path) ==
  IF parent[k] = NullKey THEN path \o <<squareOfKey(k)>>
  ELSE reconstructPathFromEdge(parent[k], parent, path \o <<squareOfKey(k)>>)

\* Reconstruct the path from the edge key back to the start via parent.
RECURSIVE reconstructPath(_, _, _)
reconstructPath(k, parent, path) ==
  IF parent[k] = NullKey THEN <<squareOfKey(k)>> \o path
  ELSE reconstructPath(parent[k], parent, <<squareOfKey(k)>> \o path)

\* The body of the for-loop for one neighbour key nk: st = <<queue, parent>>.
\* visitNeighbor with queue.unshift in place of queue.push (a stack).
visitNeighborFirst(nk, key, blocked, st) ==
  IF nk \in boardSquares /\ st[2][nk] = Unvisited /\ nk \notin blocked
  THEN << <<nk>> \o st[1], [st[2] EXCEPT ![nk] = key] >> ELSE st

\* visitNeighbor without the blockedSet.has(nk) test.
visitNeighborThroughStones(nk, key, blocked, st) ==
  IF nk \in boardSquares /\ st[2][nk] = Unvisited
  THEN <<Append(st[1], nk), [st[2] EXCEPT ![nk] = key]>>
  ELSE st

visitNeighbor(nk, key, blocked, st) ==
  IF nk \in boardSquares /\ st[2][nk] = Unvisited /\ nk \notin blocked
  THEN <<Append(st[1], nk), [st[2] EXCEPT ![nk] = key]>>
  ELSE st

\* The for-loop over current.getNeighbors(), from the i-th neighbour on.
RECURSIVE exploreNeighbors(_, _, _, _, _)
exploreNeighbors(nbrs, i, key, blocked, st) ==
  IF i > Len(nbrs) THEN st
  ELSE exploreNeighbors(nbrs, i + 1, key, blocked,
                        visitNeighbor(hash(nbrs[i]), key, blocked, st))

\* The while (queue.length) loop: st = <<queue, parent>>.
RECURSIVE bfsLoop(_, _)
bfsLoop(st, blocked) ==
  IF st[1] = <<>> THEN NoPath
  ELSE IF isEdge(squareOfKey(Head(st[1])))
       THEN [found |-> TRUE, path |-> reconstructPath(Head(st[1]), st[2], <<>>)]
       ELSE bfsLoop(exploreNeighbors(getNeighbors(squareOfKey(Head(st[1]))), 1,
                                     Head(st[1]), blocked, <<Tail(st[1]), st[2]>>),
                    blocked)

findShortestEscapePath(position, blocked) ==
  bfsLoop(<< <<hash(position)>>,
             [k \in boardSquares |-> IF k = hash(position) THEN NullKey ELSE Unvisited] >>,
          blocked)

NoStep == [nextPos |-> <<>>, escapedIfMove |-> FALSE, captured |-> TRUE]

\* getNextStep after the path is known: path is [found, path].
\* nextStepOf with the escape flag taken from the last square of the route.
nextStepOfRouteEnd(r) ==
  IF ~r.found \/ Len(r.path) <= 1 THEN NoStep
  ELSE [nextPos |-> r.path[2], escapedIfMove |-> isEdge(r.path[Len(r.path)]),
        captured |-> FALSE]

nextStepOf(r) ==
  IF ~r.found \/ Len(r.path) <= 1 THEN NoStep
  ELSE [nextPos |-> r.path[2], escapedIfMove |-> isEdge(r.path[2]), captured |-> FALSE]

\* The path is computed once (the set has the one element).
getNextStep(position, blocked) ==
  CHOOSE s \in {nextStepOf(r) : r \in {findShortestEscapePath(position, blocked)}} : TRUE

(***************************************************************************)
(* Board construction (Game1Board constructor, spawnLobster,               *)
(* placeRandomRocks)                                                       *)
(***************************************************************************)
\* spawnLobster(): Math.floor(gridWidth / 2), Math.floor(gridHeight / 2)
\* A spawn one row above the one spawnLobster computes.
spawnLobsterRowAbove == HexGridSquare(gridWidth \div 2, gridHeight \div 2 - 1)

spawnLobster == HexGridSquare(gridWidth \div 2, gridHeight \div 2)

\* Array.from(boardSquares.values()): insertion order of initializeBoard,
\* x in the outer loop and y in the inner one; n is a 0-based index.
squareArray(n) == HexGridSquare(n \div gridHeight, n % gridHeight)

\* Math.floor(squareArray.length * 0.15)
rockCount == (Cardinality(boardSquares) * 15) \div 100

\* Outcomes of Math.floor(Math.random() * squareArray.length): each stream is
\* the endless repetition of a short list of indices into squareArray.
RandomStreams ==
  << <<45, 65, 54, 64, 56>>,
     <<55, 0, 109>>,
     <<35, 43, 44, 46, 47, 53, 63, 67, 74, 75, 76, 0, 1, 2, 3, 4>>,
     <<56, 66, 55, 56>> >>

\* The streams the model draws from.
Streams == {1, 2}

draw(s, pos) == RandomStreams[s][(pos % Len(RandomStreams[s])) + 1]

\* The do { ... } while (hash is the lobster's or the centre's): the position
\* in the stream of the first draw that is kept.
\* pickSquare without the do-while: the first draw is kept.
pickSquareFirst(s, pos, lobsterPos) == pos

RECURSIVE pickSquare(_, _, _)
pickSquare(s, pos, lobsterPos) ==
  LET squareHash == hash(squareArray(draw(s, pos)))
  IN IF squareHash = hash(lobsterPos) \/ squareHash = hash(spawnLobster)
     THEN pickSquare(s, pos + 1, lobsterPos)
     ELSE pos

\* The for (i < rockCount) loop of placeRandomRocks, adding to blocked.
RECURSIVE placeRocksFrom(_, _, _, _, _)
placeRocksFrom(s, i, pos, lobsterPos, blocked) ==
  IF i >= rockCount THEN blocked
  ELSE LET at == pickSquare(s, pos, lobsterPos)
       IN placeRocksFrom(s, i + 1, at + 1, lobsterPos,
                         blocked \cup {hash(squareArray(draw(s, at)))})

placeRandomRocks(s, lobsterPos, blocked) == placeRocksFrom(s, 0, 0, lobsterPos, blocked)

(***************************************************************************)
(* State                                                                   *)
(***************************************************************************)
VARIABLES
  blockedSet,    \* Game1Board.blockedSet: keys of the squares holding a stone
  lobster,       \* Game1Board.lobster.position
  gameOver, gameLost, isAnimating, isEscaping, isOnEdge,   \* round flags
  gamePaused,    \* GameFlowController.gamePaused
  totalPoints,   \* GameFlowController.totalPoints
  timers,        \* pending callbacks (setTimeout, animationend), oldest first
  ev,            \* history: the operation that produced this state
  disturbances   \* history: player actions taken while callbacks were pending

VARIABLES
  currentState,         \* GameFlowController.currentState
  layoutTutorialStep,   \* GameFlowController.layoutTutorialStep, in tenths
  layoutScreen,         \* the layout step on screen (last renderGameIntro_LayoutStep*), in tenths
  timeRemaining,        \* GameFlowController.timeRemaining
  gameTimerLive,        \* this.gameTimer refers to an interval that was not cleared
  intervals,            \* number of countdown intervals that are ticking
  flowTimeouts,         \* pending setTimeout(() => setGameFlowState('GAME2_READY'), 500)
  game1TutorialStep,    \* GameFlowController.game1TutorialStep
  tutorialIntervals,    \* number of tutorial animation intervals that are ticking
  tutorialOwn           \* this.game1TutorialBoard.tutorialAnimationInterval is one of them

VARIABLES
  cards,                \* CardMatchingGame.cards: the name of the card at each index
  flipped,              \* CardMatchingGame.flipped
  matched,              \* CardMatchingGame.matched
  moves,                \* CardMatchingGame.moves
  isProcessing,         \* CardMatchingGame.isProcessing
  faceUp,               \* indices of the .card elements on screen with class 'flipped'
  cardTimers            \* pending callbacks of checkMatch, oldest first

flags == <<gameOver, gameLost, isAnimating, isEscaping, isOnEdge>>
board == <<blockedSet, lobster>>
tutorial == <<game1TutorialStep, tutorialIntervals, tutorialOwn>>
screens == <<currentState, layoutTutorialStep, layoutScreen, tutorial>>
countdown == <<timeRemaining, gameTimerLive, intervals, flowTimeouts>>
cardGame == <<cards, flipped, matched, moves, isProcessing, faceUp, cardTimers>>
offBoard == <<screens, countdown, cardGame>>
vars == <<blockedSet, lobster, gameOver, gameLost, isAnimating, isEscaping,
          isOnEdge, gamePaused, totalPoints, timers, ev, disturbances,
          currentState, layoutTutorialStep, layoutScreen,
          timeRemaining, gameTimerLive, intervals, flowTimeouts,
          game1TutorialStep, tutorialIntervals, tutorialOwn,
          cards, flipped, matched, moves, isProcessing, faceUp, cardTimers>>

\* startGame1Timer: this.timeRemaining = 240
gameDuration == 240

\* The controller while the Game 1 screen is shown: renderGame1_Main has
\* started the countdown, the tutorials were left on their last steps.
Game1OnScreen ==
  /\ currentState = "GAME1"
  /\ layoutTutorialStep = 30 /\ layoutScreen = 30
  /\ game1TutorialStep = 2 /\ tutorialIntervals = 0 /\ tutorialOwn = FALSE
  /\ timeRemaining = gameDuration
  /\ gameTimerLive = TRUE /\ intervals = 1
  /\ flowTimeouts = 0

\* this.game2Board = null: no card game yet
game2BoardNull ==
  /\ cards = <<>> /\ flipped = {} /\ matched = {} /\ moves = 0
  /\ isProcessing = FALSE /\ faceUp = {} /\ cardTimers = <<>>

\* Delays of the setTimeout calls, in milliseconds.
turnDelay == 120
wiggleDelay == 120
jumpDelay == 280
stoneDelay == 1200
capturedResetDelay == 400
escapeResetDelay == 1600

\* Bounds of the model.
MaxDisturbances == 3
MaxPoints == 1

\* The keys clickHexTile is called with (an out-of-grid key included).
ClickKeys == {<<6, 6>>, <<5, 5>>, <<5, 6>>, <<4, 7>>, <<11, 3>>}

NoKey == <<>>

\* blockedSet.clear() (or the new Set of the constructor), spawnLobster() and
\* placeRandomRocks() under stream s; computed once per stream.
freshRocks == [s \in Streams |-> placeRandomRocks(s, spawnLobster, {})]

\* The call this.lobster.getNextStep(blockedSet, ...) of clickHexTile.  Its
\* results for the boards the model's inputs can build are computed once.
memoBlocked == {freshRocks[s] \cup keys : s \in Streams, keys \in SUBSET ClickKeys}

\* (@@ <<>> leaves the function as it is and has it evaluated once, as a table.)
stepMemo ==
  [kb \in boardSquares \X memoBlocked |-> getNextStep(squareOfKey(kb[1]), kb[2])] @@ <<>>

lobsterNextStep(position, blocked) ==
  IF hash(position) \in boardSquares /\ blocked \in memoBlocked
  THEN stepMemo[<<hash(position), blocked>>]
  ELSE getNextStep(position, blocked)

Timer(kind, delay, nextPos, escapedIfMove) ==
  [kind |-> kind, delay |-> delay, nextPos |-> nextPos,
   escapedIfMove |-> escapedIfMove, stale |-> FALSE]

\* History only: a callback scheduled before a reset is marked stale.
MarkStale(ts) == [i \in 1..Len(ts) |-> [ts[i] EXCEPT !.stale = TRUE]]

RemoveAt(ts, i) == SubSeq(ts, 1, i - 1) \o SubSeq(ts, i + 1, Len(ts))

\* Timer order of the event loop: a timeout cannot run before one that was
\* set earlier with a delay that is not longer.  The animationend event is
\* no timeout: it neither waits for timeouts nor holds them back.
CanFire(i) ==
  \/ timers[i].kind = "animationend"
  \/ \A j \in 1..(i - 1) :
       timers[j].kind = "animationend" \/ timers[j].delay > timers[i].delay

Event(op, key, result) == [op |-> op, key |-> key, result |-> result]

TimerEvent(t) ==
  Event(t.kind, NoKey, IF t.stale THEN "stale" ELSE "current")

(***************************************************************************)
(* Game1Board constructor                                                  *)
(***************************************************************************)
Init ==
  /\ \E s \in Streams : blockedSet = freshRocks[s]
  /\ lobster = spawnLobster
  /\ gameOver = FALSE /\ gameLost = FALSE /\ isAnimating = FALSE
  /\ isEscaping = FALSE /\ isOnEdge = FALSE
  /\ gamePaused = FALSE
  /\ totalPoints = 0
  /\ timers = <<>>
  /\ ev = Event("new", NoKey, "ok")
  /\ disturbances = 0
  /\ Game1OnScreen /\ game2BoardNull

(***************************************************************************)
(* Game1Board.reset(): the state it leaves; s is the random stream          *)
(***************************************************************************)
reset(s) ==
  /\ lobster' = spawnLobster
  /\ blockedSet' = freshRocks[s]
  /\ gameOver' = FALSE /\ gameLost' = FALSE /\ isAnimating' = FALSE
  /\ isEscaping' = FALSE /\ isOnEdge' = FALSE

(***************************************************************************)
(* Game1Board.clickHexTile(x, y), key = hash of (x, y)                     *)
(***************************************************************************)
clickGuard == gameOver \/ gameLost \/ isAnimating \/ isEscaping \/ isOnEdge

\* clickRejected without the test of line 1770 (the lobster's own square).
clickRejectedAgentFree(key) ==
  clickGuard \/ key \in blockedSet

\* clickRejected without the test of line 1771 (a square that holds a stone).
clickRejectedStoneFree(key) ==
  clickGuard \/ key = hash(lobster)

clickRejected(key) ==
  clickGuard \/ key = hash(lobster) \/ key \in blockedSet

\* animateTurnWiggleJump(nextPos, escapedIfMove): the synchronous part
animateTurnWiggleJump(nextPos, escapedIfMove) ==
  /\ isAnimating' = TRUE
  /\ timers' = Append(timers, Timer("turn", turnDelay, nextPos, escapedIfMove))

\* resolveTurn with a capture that does not end the round.
resolveTurnNoCapture(key, step) ==
  /\ IF step.captured
     THEN /\ timers' = Append(timers, Timer("stone", stoneDelay, NoKey, FALSE))
          /\ ev' = Event("clickHexTile", key, "captured")
          /\ UNCHANGED <<gameOver, isAnimating>>
     ELSE /\ animateTurnWiggleJump(step.nextPos, step.escapedIfMove)
          /\ ev' = Event("clickHexTile", key,
                         IF step.escapedIfMove THEN "escape" ELSE "move")
          /\ UNCHANGED gameOver
  /\ UNCHANGED <<lobster, gameLost, isEscaping, isOnEdge, gamePaused, totalPoints>>

\* resolveTurn with the position update made in the call itself.
resolveTurnMovesNow(key, step) ==
  /\ IF step.captured
     THEN /\ gameOver' = TRUE
          /\ timers' = Append(timers, Timer("stone", stoneDelay, NoKey, FALSE))
          /\ ev' = Event("clickHexTile", key, "captured")
          /\ UNCHANGED <<isAnimating, lobster>>
     ELSE /\ animateTurnWiggleJump(step.nextPos, step.escapedIfMove)
          /\ lobster' = step.nextPos
          /\ ev' = Event("clickHexTile", key,
                         IF step.escapedIfMove THEN "escape" ELSE "move")
          /\ UNCHANGED gameOver
  /\ UNCHANGED <<gameLost, isEscaping, isOnEdge, gamePaused, totalPoints>>

\* The part of clickHexTile after getNextStep returned step.
resolveTurn(key, step) ==
  /\ IF step.captured
     THEN /\ gameOver' = TRUE
          /\ timers' = Append(timers, Timer("stone", stoneDelay, NoKey, FALSE))
          /\ ev' = Event("clickHexTile", key, "captured")
          /\ UNCHANGED isAnimating
     ELSE /\ animateTurnWiggleJump(step.nextPos, step.escapedIfMove)
          /\ ev' = Event("clickHexTile", key,
                         IF step.escapedIfMove THEN "escape" ELSE "move")
          /\ UNCHANGED gameOver
  /\ UNCHANGED <<lobster, gameLost, isEscaping, isOnEdge, gamePaused, totalPoints>>

clickHexTile(key) ==
  IF clickRejected(key)
  THEN /\ ev' = Event("clickHexTile", NoKey, "rejected")
       /\ UNCHANGED <<board, flags, gamePaused, totalPoints, timers>>
  ELSE /\ blockedSet' = blockedSet \cup {key}
       /\ \E step \in {lobsterNextStep(lobster, blockedSet \cup {key})} :
            resolveTurn(key, step)

(***************************************************************************)
(* Callbacks of animateTurnWiggleJump                                      *)
(***************************************************************************)
\* first setTimeout (120 ms): render, wiggle class, schedule the next one
turnCallback(i) ==
  LET t == timers[i]
  IN /\ t.kind = "turn"
     /\ timers' = Append(RemoveAt(timers, i),
                         [t EXCEPT !.kind = "wiggle", !.delay = wiggleDelay])
     /\ ev' = TimerEvent(t)
     /\ UNCHANGED <<board, flags, gamePaused, totalPoints>>

\* second setTimeout (120 ms): this.lobster.position = nextPos
wiggleCallback(i) ==
  LET t == timers[i]
  IN /\ t.kind = "wiggle"
     /\ lobster' = t.nextPos
     /\ timers' = Append(RemoveAt(timers, i),
                         [t EXCEPT !.kind = "jump", !.delay = jumpDelay])
     /\ ev' = TimerEvent(t)
     /\ UNCHANGED <<blockedSet, flags, gamePaused, totalPoints>>

\* triggerEscapeAnimation(tile): the tile exists after render()
triggerEscapeAnimation(rest, t) ==
  /\ isEscaping' = TRUE
  /\ timers' = Append(rest, [Timer("escape", escapeResetDelay, NoKey, FALSE)
                              EXCEPT !.stale = t.stale])

\* third setTimeout (280 ms): isAnimating = false, then the escape if any
jumpCallback(i) ==
  LET t == timers[i]
  IN /\ t.kind = "jump"
     /\ isAnimating' = FALSE
     /\ IF t.escapedIfMove
        THEN triggerEscapeAnimation(RemoveAt(timers, i), t)
        ELSE /\ timers' = RemoveAt(timers, i)
             /\ UNCHANGED isEscaping
     /\ ev' = TimerEvent(t)
     /\ UNCHANGED <<board, gameOver, gameLost, isOnEdge, gamePaused, totalPoints>>

\* the escape setTimeout (1600 ms): flags cleared, reset(), render()
escapeResetCallback(i) ==
  LET t == timers[i]
  IN /\ t.kind = "escape"
     /\ \E s \in Streams : reset(s)
     /\ timers' = MarkStale(RemoveAt(timers, i))
     /\ ev' = TimerEvent(t)
     /\ UNCHANGED <<gamePaused, totalPoints>>

(***************************************************************************)
(* Callbacks of the capture sequence of clickHexTile                       *)
(***************************************************************************)
\* setTimeout (1200 ms): the stone is created and starts flying to the cairn
stoneCallback(i) ==
  LET t == timers[i]
  IN /\ t.kind = "stone"
     /\ timers' = Append(RemoveAt(timers, i),
                         [t EXCEPT !.kind = "animationend", !.delay = 0])
     /\ ev' = TimerEvent(t)
     /\ UNCHANGED <<board, flags, gamePaused, totalPoints>>

\* addPointToCairn counting two points for one stone.
addPointToCairnTwice == totalPoints' = totalPoints + 2

\* GameFlowController.addPointToCairn()
addPointToCairn == totalPoints' = totalPoints + 1

\* stoneAnimationEnd without the setTimeout of lines 1837-1840.
stoneAnimationEndNoReset(i) ==
  LET t == timers[i]
  IN /\ t.kind = "animationend"
     /\ totalPoints < MaxPoints
     /\ addPointToCairn
     /\ timers' = RemoveAt(timers, i)
     /\ ev' = TimerEvent(t)
     /\ UNCHANGED <<board, flags, gamePaused>>

\* the stone's animationend listener: the point, then the reset timeout
stoneAnimationEnd(i) ==
  LET t == timers[i]
  IN /\ t.kind = "animationend"
     /\ totalPoints < MaxPoints
     /\ addPointToCairn
     /\ timers' = Append(RemoveAt(timers, i),
                         [t EXCEPT !.kind = "roundReset", !.delay = capturedResetDelay])
     /\ ev' = TimerEvent(t)
     /\ UNCHANGED <<board, flags, gamePaused>>

\* setTimeout (400 ms): reset(), render()
capturedResetCallback(i) ==
  LET t == timers[i]
  IN /\ t.kind = "roundReset"
     /\ \E s \in Streams : reset(s)
     /\ timers' = MarkStale(RemoveAt(timers, i))
     /\ ev' = TimerEvent(t)
     /\ UNCHANGED <<gamePaused, totalPoints>>

(***************************************************************************)
(* GameFlowController: togglePause, resetGame1Round                        *)
(***************************************************************************)
\* The Game 1 part of togglePause: the board is frozen through isAnimating.
togglePause ==
  /\ gamePaused' = ~gamePaused
  /\ isAnimating' = gamePaused'
  /\ ev' = Event("togglePause", NoKey, IF gamePaused' THEN "paused" ELSE "resumed")
  /\ UNCHANGED <<board, gameOver, gameLost, isEscaping, isOnEdge, totalPoints, timers>>

\* togglePauseCountdown without the clearInterval of line 340.
togglePauseCountdownNoStop ==
  /\ IF gamePaused'
     THEN UNCHANGED <<intervals, gameTimerLive>>
     ELSE /\ intervals' = (IF gameTimerLive THEN intervals - 1 ELSE intervals) + 1
          /\ gameTimerLive' = TRUE
  /\ UNCHANGED <<timeRemaining, flowTimeouts>>

\* The countdown part of togglePause: clearInterval(this.gameTimer) on pause;
\* on resume clearInterval again and a new setInterval, timeRemaining kept.
togglePauseCountdown ==
  /\ IF gamePaused'
     THEN /\ intervals' = (IF gameTimerLive THEN intervals - 1 ELSE intervals)
          /\ gameTimerLive' = FALSE
     ELSE /\ intervals' = (IF gameTimerLive THEN intervals - 1 ELSE intervals) + 1
          /\ gameTimerLive' = TRUE
  /\ UNCHANGED <<timeRemaining, flowTimeouts>>

resetGame1Round ==
  /\ \E s \in Streams : reset(s)
  /\ timers' = MarkStale(timers)
  /\ ev' = Event("resetGame1Round", NoKey, "ok")
  /\ UNCHANGED <<gamePaused, totalPoints>>

(***************************************************************************)
(* Specifications                                                          *)
(***************************************************************************)
\* The player acts freely while no callback is pending, and at most
\* MaxDisturbances times while one is (a rejected click does not count).
Undisturbed == timers = <<>>

Player(changesNothing) ==
  IF Undisturbed \/ changesNothing
  THEN UNCHANGED disturbances
  ELSE disturbances < MaxDisturbances /\ disturbances' = disturbances + 1

Click ==
  /\ \E key \in ClickKeys : clickHexTile(key) /\ Player(clickRejected(key))
  /\ UNCHANGED offBoard
Pause == togglePause /\ togglePauseCountdown /\ Player(FALSE) /\ UNCHANGED <<screens, cardGame>>
RoundReset == resetGame1Round /\ Player(FALSE) /\ UNCHANGED offBoard

Fires(i) == CanFire(i) /\ UNCHANGED <<disturbances, offBoard>>

TurnFires == \E i \in 1..Len(timers) : Fires(i) /\ turnCallback(i)
WiggleFires == \E i \in 1..Len(timers) : Fires(i) /\ wiggleCallback(i)
JumpFires == \E i \in 1..Len(timers) : Fires(i) /\ jumpCallback(i)
EscapeResetFires == \E i \in 1..Len(timers) : Fires(i) /\ escapeResetCallback(i)
StoneFires == \E i \in 1..Len(timers) : Fires(i) /\ stoneCallback(i)
StoneLands == \E i \in 1..Len(timers) : Fires(i) /\ stoneAnimationEnd(i)
CapturedResetFires == \E i \in 1..Len(timers) : Fires(i) /\ capturedResetCallback(i)

Callback ==
  \/ TurnFires
  \/ WiggleFires
  \/ JumpFires
  \/ EscapeResetFires
  \/ StoneFires
  \/ StoneLands
  \/ CapturedResetFires

\* Clicks and the callbacks they schedule.
NextPlay == Click \/ Callback
SpecPlay == Init /\ [][NextPlay]_vars

\* The same with timeouts and animation events that do fire.
SpecPlayLive == SpecPlay /\ WF_vars(Callback)

\* Clicks, callbacks and the pause button.
NextPause == Click \/ Callback \/ Pause
SpecPause == Init /\ [][NextPause]_vars

\* The whole Game 1 screen: pause and the round-reset button included.
Next == Click \/ Callback \/ Pause \/ RoundReset
Spec == Init /\ [][Next]_vars

(***************************************************************************)
(* The route search on its own: LobsterToken.findShortestEscapePath is     *)
(* applied to the boards of every random stream, to the stones a player    *)
(* puts next to the lobster, and to every square the routes lead through.  *)
(***************************************************************************)
MaxStones == 6

PathBoards == {placeRandomRocks(s, spawnLobster, {}) : s \in 1..Len(RandomStreams)}

InitPath ==
  /\ blockedSet \in PathBoards
  /\ lobster = spawnLobster
  /\ gameOver = FALSE /\ gameLost = FALSE /\ isAnimating = FALSE
  /\ isEscaping = FALSE /\ isOnEdge = FALSE
  /\ gamePaused = FALSE
  /\ totalPoints = 0
  /\ timers = <<>>
  /\ ev = Event("new", NoKey, "ok")
  /\ disturbances = 0
  /\ Game1OnScreen /\ game2BoardNull

\* blockedSet.add(hash) on a free square next to the lobster; as in
\* clickHexTile, a placement is followed by getNextStep before the next one
PlaceStone ==
  /\ ev.op # "add"
  /\ Cardinality(blockedSet) < MaxStones
  /\ \E i \in 1..6 : \E key \in {hash(getNeighbors(lobster)[i])} \ blockedSet :
       /\ blockedSet' = blockedSet \cup {key}
       /\ ev' = Event("add", key, "ok")
  /\ UNCHANGED <<lobster, flags, gamePaused, totalPoints, timers, disturbances, offBoard>>

\* getNextStep and the position update, without the animation
FollowRoute ==
  /\ ev.op = "add"
  /\ \E step \in {getNextStep(lobster, blockedSet)} :
       /\ ~step.captured
       /\ lobster' = step.nextPos
  /\ ev' = Event("getNextStep", NoKey, "ok")
  /\ UNCHANGED <<blockedSet, flags, gamePaused, totalPoints, timers, disturbances, offBoard>>

NextPath == PlaceStone \/ FollowRoute
SpecPath == InitPath /\ [][NextPath]_vars

(***************************************************************************)
(* The first turn on a board without stones: the lobster is on its spawn   *)
(* square, the player puts the first stone on any free square, and the     *)
(* lobster answers with getNextStep.                                       *)
(***************************************************************************)
InitEmptyBoard ==
  /\ blockedSet = {}
  /\ lobster = spawnLobster
  /\ gameOver = FALSE /\ gameLost = FALSE /\ isAnimating = FALSE
  /\ isEscaping = FALSE /\ isOnEdge = FALSE
  /\ gamePaused = FALSE
  /\ totalPoints = 0
  /\ timers = <<>>
  /\ ev = Event("new", NoKey, "ok")
  /\ disturbances = 0
  /\ Game1OnScreen /\ game2BoardNull

\* clickHexTile up to blockedSet.add(key): any square of the board that is
\* not the lobster's
PlaceFirstStone ==
  /\ blockedSet = {}
  /\ \E key \in boardSquares \ {hash(lobster)} :
       /\ blockedSet' = {key}
       /\ ev' = Event("add", key, "ok")
  /\ UNCHANGED <<lobster, flags, gamePaused, totalPoints, timers, disturbances, offBoard>>

NextEmptyBoard == PlaceFirstStone \/ FollowRoute
SpecEmptyBoard == InitEmptyBoard /\ [][NextEmptyBoard]_vars

(***************************************************************************)
(* The grid on its own: HexGridSquare.getNeighbors is applied to every     *)
(* square of the board that initializeBoard builds, without stones, and    *)
(* followed to each neighbour that is a square of the board.               *)
(***************************************************************************)
InitGrid ==
  /\ blockedSet = {}
  /\ lobster \in {squareOfKey(k) : k \in boardSquares}
  /\ gameOver = FALSE /\ gameLost = FALSE /\ isAnimating = FALSE
  /\ isEscaping = FALSE /\ isOnEdge = FALSE
  /\ gamePaused = FALSE
  /\ totalPoints = 0
  /\ timers = <<>>
  /\ ev = Event("new", NoKey, "ok")
  /\ disturbances = 0
  /\ Game1OnScreen /\ game2BoardNull

\* one entry of getNeighbors() that boardSquares has (the test of the search)
VisitNeighbor ==
  /\ \E i \in 1..6 : \E n \in {getNeighbors(lobster)[i]} :
       /\ hash(n) \in boardSquares
       /\ lobster' = n
       /\ ev' = Event("getNeighbors", hash(lobster), "ok")
  /\ UNCHANGED <<blockedSet, flags, gamePaused, totalPoints, timers, disturbances, offBoard>>

NextGrid == VisitNeighbor
SpecGrid == InitGrid /\ [][NextGrid]_vars

(***************************************************************************)
(* GameFlowController: the screens from the layout tutorial to the end of  *)
(* Game 1, with the countdown of Game 1.  Steps of the layout tutorial are *)
(* in tenths: 0, 10, 20, 25 (the source's 2.5), 30.                        *)
(***************************************************************************)
MaxOvertime == 2

LayoutSteps == <<0, 10, 20, 25, 30>>

\* A render function that leaves this.layoutTutorialStep as it was.
renderGameIntro_LayoutStepOnly(n, step) ==
  /\ layoutTutorialStep' = step
  /\ layoutScreen' = n

\* renderGameIntro_LayoutStep0 .. 3: each sets the step it displays; step is
\* the value of this.layoutTutorialStep when the function is called.
renderGameIntro_LayoutStep(n, step) ==
  /\ layoutTutorialStep' = n
  /\ layoutScreen' = n

\* advanceLayoutTutorialStep(): no branch for step 3
advanceLayoutTutorialStep ==
  IF \E i \in 1..4 : LayoutSteps[i] = layoutTutorialStep
  THEN \E i \in 1..4 :
         /\ LayoutSteps[i] = layoutTutorialStep
         /\ renderGameIntro_LayoutStep(LayoutSteps[i + 1], LayoutSteps[i + 1])
  ELSE UNCHANGED <<layoutTutorialStep, layoutScreen>>

\* setGameFlowState(newState) for the screens without a state of their own
setGameFlowState(newState) ==
  /\ currentState' = newState
  /\ ev' = Event("setGameFlowState", NoKey, newState)

InitFlow ==
  /\ currentState = "PREGAME_TUTORIAL"
  /\ layoutTutorialStep = 0 /\ layoutScreen = 0
  /\ game1TutorialStep = 0 /\ tutorialIntervals = 0 /\ tutorialOwn = FALSE
  /\ timeRemaining = gameDuration
  /\ gameTimerLive = FALSE /\ intervals = 0 /\ flowTimeouts = 0
  /\ blockedSet = {} /\ lobster = spawnLobster
  /\ gameOver = FALSE /\ gameLost = FALSE /\ isAnimating = FALSE
  /\ isEscaping = FALSE /\ isOnEdge = FALSE
  /\ gamePaused = FALSE
  /\ totalPoints = 0
  /\ timers = <<>>
  /\ ev = Event("setGameFlowState", NoKey, "PREGAME_TUTORIAL")
  /\ disturbances = 0
  /\ game2BoardNull

\* What the screens before Game 1 leave alone.
beforeGame1 == <<board, flags, gamePaused, totalPoints, timers, disturbances,
                 countdown, cardGame, tutorial>>

\* Bound of the model: tutorial animation intervals ticking at a time.
MaxAnimations == 2

\* Game1Board.startSlowLobsterAnimation on the board renderGame1Tutorial_Step1
\* has just made: its tutorialAnimationInterval is null, nothing is cleared
startSlowLobsterAnimation ==
  /\ tutorialIntervals < MaxAnimations
  /\ tutorialIntervals' = tutorialIntervals + 1
  /\ tutorialOwn' = TRUE

\* Game1Board.stopTutorialAnimation() on this.game1TutorialBoard, which the
\* render functions of the steps 2 and 3 then replace by a board without interval
stopTutorialAnimation ==
  /\ tutorialIntervals' = (IF tutorialOwn THEN tutorialIntervals - 1 ELSE tutorialIntervals)
  /\ tutorialOwn' = FALSE

\* "Air adhart" on a layout step
LayoutForward ==
  /\ currentState = "PREGAME_TUTORIAL" /\ layoutScreen # 30
  /\ advanceLayoutTutorialStep
  /\ ev' = Event("advanceLayoutTutorialStep", NoKey, "ok")
  /\ UNCHANGED <<currentState, beforeGame1>>

\* "Air ais" on the layout steps 1 .. 3: the render function of the step before
LayoutBack ==
  /\ currentState = "PREGAME_TUTORIAL"
  /\ \E i \in 2..5 :
       /\ LayoutSteps[i] = layoutScreen
       /\ renderGameIntro_LayoutStep(LayoutSteps[i - 1], layoutTutorialStep)
  /\ ev' = Event("renderGameIntro_LayoutStep", NoKey, "back")
  /\ UNCHANGED <<currentState, beforeGame1>>

\* "Air ais" on layout step 0 and on step 1 of the Game 1 tutorial, "Air
\* adhart" on the introduction: setGameFlowState to the neighbouring screen
LeaveLayoutTutorial ==
  /\ currentState = "PREGAME_TUTORIAL" /\ layoutScreen = 0
  /\ setGameFlowState("RUAIRIDH_INTRO")
  /\ UNCHANGED <<layoutTutorialStep, layoutScreen, beforeGame1>>

EnterLayoutTutorial ==
  /\ \/ currentState = "RUAIRIDH_INTRO"
     \/ currentState = "GAME1_TUTORIAL" /\ game1TutorialStep = 0
  /\ setGameFlowState("PREGAME_TUTORIAL")
  /\ renderGameIntro_LayoutStep(0, layoutTutorialStep)
  /\ UNCHANGED beforeGame1

\* renderGame1Tutorial_Step1(): a new tutorial board and its animation
renderGame1Tutorial_Step1 ==
  /\ game1TutorialStep' = 0
  /\ startSlowLobsterAnimation

\* "Cluich an Geama" on layout step 3: renderGame1TutorialFlow()
EnterGame1Tutorial ==
  /\ currentState = "PREGAME_TUTORIAL" /\ layoutScreen = 30
  /\ setGameFlowState("GAME1_TUTORIAL")
  /\ renderGame1Tutorial_Step1
  /\ UNCHANGED <<layoutTutorialStep, layoutScreen, board, flags, gamePaused,
                 totalPoints, timers, disturbances, countdown, cardGame>>

\* cleanupAndNavigateToStep2(): "Air adhart" on step 1 of the Game 1 tutorial
cleanupAndNavigateToStep2 ==
  /\ stopTutorialAnimation
  /\ game1TutorialStep' = 1

\* renderGame1Tutorial_Step2 and _Step3 called by a button of the step next
\* to it: a new tutorial board, no animation
renderGame1Tutorial_Step(n) ==
  /\ game1TutorialStep' = n
  /\ tutorialOwn' = FALSE
  /\ UNCHANGED tutorialIntervals

\* What the steps of the Game 1 tutorial leave alone.
inGame1Tutorial == <<currentState, layoutTutorialStep, layoutScreen, board, flags,
                     gamePaused, totalPoints, timers, disturbances, countdown,
                     cardGame>>

\* "Air adhart" on the steps 1 and 2 of the Game 1 tutorial
Game1TutorialForward ==
  /\ currentState = "GAME1_TUTORIAL"
  /\ \/ game1TutorialStep = 0 /\ cleanupAndNavigateToStep2
     \/ game1TutorialStep = 1 /\ renderGame1Tutorial_Step(2)
  /\ ev' = Event("game1TutorialStep", NoKey, "forward")
  /\ UNCHANGED inGame1Tutorial

\* "Air ais" on the steps 2 and 3 of the Game 1 tutorial
Game1TutorialBack ==
  /\ currentState = "GAME1_TUTORIAL"
  /\ \/ game1TutorialStep = 1 /\ renderGame1Tutorial_Step1
     \/ game1TutorialStep = 2 /\ renderGame1Tutorial_Step(1)
  /\ ev' = Event("game1TutorialStep", NoKey, "back")
  /\ UNCHANGED inGame1Tutorial

\* startGame1Timer with the 5 minutes the timer display starts from.
startGame1TimerFiveMinutes ==
  /\ timeRemaining' = 300
  /\ intervals' = (IF gameTimerLive THEN intervals - 1 ELSE intervals) + 1
  /\ gameTimerLive' = TRUE
  /\ UNCHANGED flowTimeouts

\* startGame1Timer()
startGame1Timer ==
  /\ timeRemaining' = gameDuration
  /\ intervals' = (IF gameTimerLive THEN intervals - 1 ELSE intervals) + 1
  /\ gameTimerLive' = TRUE
  /\ UNCHANGED flowTimeouts

\* "Cluich an Geama" on step 3 of the Game 1 tutorial: setGameFlowState('GAME1'),
\* that is renderGame1_Main: a new board and the countdown
EnterGame1 ==
  /\ currentState = "GAME1_TUTORIAL" /\ game1TutorialStep = 2
  /\ setGameFlowState("GAME1")
  /\ \E s \in Streams : reset(s)
  /\ timers' = <<>>
  /\ startGame1Timer
  /\ UNCHANGED <<layoutTutorialStep, layoutScreen, gamePaused, totalPoints,
                 disturbances, cardGame, tutorial>>

\* The pause button and the resume button of the Game 1 screen
PauseButton == currentState = "GAME1" /\ Pause

\* The callback of the countdown interval.  While the 500 ms timeout of the
\* end of the countdown is pending no interval ticks: an interval ticking
\* then was set after the timeout and with a longer delay.
TimerTick ==
  /\ intervals > 0 /\ flowTimeouts = 0
  /\ timeRemaining > -MaxOvertime
  /\ timeRemaining' = timeRemaining - 1
  /\ IF timeRemaining' <= 0
     THEN /\ intervals' = (IF gameTimerLive THEN intervals - 1 ELSE intervals)
          /\ gameTimerLive' = FALSE
          /\ flowTimeouts' = flowTimeouts + 1
     ELSE UNCHANGED <<intervals, gameTimerLive, flowTimeouts>>
  /\ ev' = Event("tick", NoKey, IF timeRemaining' <= 0 THEN "end" ELSE "ok")
  /\ UNCHANGED <<board, flags, gamePaused, totalPoints, timers, disturbances,
                 screens, cardGame>>

\* The timeout set when the countdown ended: setGameFlowState('GAME2_READY')
FlowTimeout ==
  /\ flowTimeouts > 0
  /\ flowTimeouts' = flowTimeouts - 1
  /\ setGameFlowState("GAME2_READY")
  /\ UNCHANGED <<board, flags, gamePaused, totalPoints, timers, disturbances,
                 layoutTutorialStep, layoutScreen, timeRemaining, gameTimerLive,
                 intervals, cardGame, tutorial>>

NextFlow ==
  \/ LayoutForward
  \/ LayoutBack
  \/ LeaveLayoutTutorial
  \/ EnterLayoutTutorial
  \/ EnterGame1Tutorial
  \/ Game1TutorialForward
  \/ Game1TutorialBack
  \/ EnterGame1
  \/ PauseButton
  \/ TimerTick
  \/ FlowTimeout

SpecFlow == InitFlow /\ [][NextFlow]_vars

\* The same with a timeout that does run.
SpecFlowLive == SpecFlow /\ WF_vars(FlowTimeout)

\* skipToGame2(): the "[DEV] Skip to Game 2" button of the Game 1 screen
skipToGame2 ==
  /\ intervals' = (IF gameTimerLive THEN intervals - 1 ELSE intervals)
  /\ gameTimerLive' = FALSE
  /\ setGameFlowState("GAME2_READY")
  /\ UNCHANGED <<timeRemaining, flowTimeouts>>

SkipButton ==
  /\ currentState = "GAME1"
  /\ skipToGame2
  /\ UNCHANGED <<board, flags, gamePaused, totalPoints, timers, disturbances,
                 layoutTutorialStep, layoutScreen, cardGame, tutorial>>

\* What the screens between Game 1 and Game 2 leave alone.
afterGame1 == <<board, flags, gamePaused, totalPoints, timers, disturbances,
                layoutTutorialStep, layoutScreen, countdown, cardGame, tutorial>>

\* "Air adhart" on the screen between the games
EnterGame2Tutorial ==
  /\ currentState = "GAME2_READY"
  /\ setGameFlowState("GAME2_TUTORIAL")
  /\ UNCHANGED afterGame1

\* "Air ais" on the Game 2 tutorial
LeaveGame2Tutorial ==
  /\ currentState = "GAME2_TUTORIAL"
  /\ setGameFlowState("GAME2_READY")
  /\ UNCHANGED afterGame1

\* The flow with the skip button and the screens that follow Game 1.
NextFlowSkip ==
  \/ LayoutForward
  \/ LayoutBack
  \/ LeaveLayoutTutorial
  \/ EnterLayoutTutorial
  \/ EnterGame1Tutorial
  \/ Game1TutorialForward
  \/ Game1TutorialBack
  \/ EnterGame1
  \/ PauseButton
  \/ TimerTick
  \/ FlowTimeout
  \/ SkipButton
  \/ EnterGame2Tutorial
  \/ LeaveGame2Tutorial

SpecFlowSkip == InitFlow /\ [][NextFlowSkip]_vars

(***************************************************************************)
(* Game 2: CardMatchingGame                                                *)
(***************************************************************************)
MaxMoves == 3
MaxRestarts == 1

totalPairs == 6
CardIndices == 0..(2 * totalPairs - 1)

\* Outcomes of [...cardImages, ...cardImages].sort(() => Math.random() - 0.5):
\* the unshuffled order, and the order with the two cards of a pair side by side.
Shuffles == << [i \in CardIndices |-> i % totalPairs],
              [i \in CardIndices |-> i \div 2] >>

\* The cards the player clicks: 0 and 6 are a pair in the first shuffle,
\* 0 and 1 in the second; 2 matches none of the others.
FlipKeys == {0, 1, 2, 6}

matchDelay == 400
mismatchDelay == 1000
cairnStoneDelay == 800

\* A pending callback of checkMatch or animateStoneTocairn; detached: render()
\* has replaced the .card elements the callback holds.
CardTimer(kind, delay, pair) ==
  [kind |-> kind, delay |-> delay, pair |-> pair, detached |-> FALSE]

Detach(ts) == [i \in 1..Len(ts) |-> [ts[i] EXCEPT !.detached = TRUE]]

CardCanFire(i) ==
  \A j \in 1..(i - 1) : cardTimers[j].delay > cardTimers[i].delay

\* What Game 2 leaves alone.
outsideGame2 == <<board, flags, gamePaused, timers, screens, countdown>>

\* new CardMatchingGame(this), render()
InitCards ==
  /\ \E s \in 1..Len(Shuffles) : cards = Shuffles[s]
  /\ flipped = {} /\ matched = {} /\ moves = 0
  /\ isProcessing = FALSE /\ faceUp = {} /\ cardTimers = <<>>
  /\ currentState = "GAME2"
  /\ layoutTutorialStep = 30 /\ layoutScreen = 30
  /\ game1TutorialStep = 2 /\ tutorialIntervals = 0 /\ tutorialOwn = FALSE
  /\ timeRemaining = 0
  /\ gameTimerLive = FALSE /\ intervals = 0 /\ flowTimeouts = 0
  /\ blockedSet = {} /\ lobster = spawnLobster
  /\ gameOver = FALSE /\ gameLost = FALSE /\ isAnimating = FALSE
  /\ isEscaping = FALSE /\ isOnEdge = FALSE
  /\ gamePaused = FALSE
  /\ totalPoints = 0
  /\ timers = <<>>
  /\ ev = Event("new", NoKey, "ok")
  /\ disturbances = 0

\* flipCard with the guard on this.flipped only.
flipRejectedFlippedOnly(index) == index \in flipped

\* the guard of flipCard
flipRejected(index) == isProcessing \/ index \in flipped \/ index \in matched

\* checkMatch(): flipped holds the two indices of pair
checkMatch(pair) ==
  /\ isProcessing' = TRUE
  /\ \E i \in pair : \E j \in pair \ {i} :
       cardTimers' = Append(cardTimers,
         IF cards[i] = cards[j] THEN CardTimer("match", matchDelay, pair)
                                ELSE CardTimer("mismatch", mismatchDelay, pair))

\* flipCard(index)
flipCard(index) ==
  IF flipRejected(index)
  THEN /\ ev' = Event("flipCard", NoKey, "rejected")
       /\ UNCHANGED <<cardGame, totalPoints>>
  ELSE /\ flipped' = flipped \cup {index}
       /\ faceUp' = faceUp \cup {index}
       /\ IF Cardinality(flipped') = 2
          THEN /\ moves < MaxMoves
               /\ moves' = moves + 1
               /\ checkMatch(flipped')
               /\ ev' = Event("flipCard", <<index>>, "pair")
          ELSE /\ ev' = Event("flipCard", <<index>>, "first")
               /\ UNCHANGED <<moves, isProcessing, cardTimers>>
       /\ UNCHANGED <<cards, matched, totalPoints>>

\* The 400 ms callback of a match: the pair is matched, the stone starts for
\* the cairn, flipped is cleared and the game takes clicks again.  With
\* MaxMoves below totalPairs, matched never holds every card.
matchCallback(i) ==
  LET t == cardTimers[i]
  IN /\ t.kind = "match"
     /\ matched' = matched \cup t.pair
     /\ cardTimers' = Append(RemoveAt(cardTimers, i),
                             [t EXCEPT !.kind = "stone", !.delay = cairnStoneDelay])
     /\ flipped' = {}
     /\ isProcessing' = FALSE
     /\ ev' = Event("match", NoKey, IF t.detached THEN "stale" ELSE "current")
     /\ UNCHANGED <<cards, moves, faceUp, totalPoints>>

\* The 1000 ms callback of a mismatch: the two elements the callback holds
\* lose the class 'flipped', flipped is cleared, the game takes clicks again.
mismatchCallback(i) ==
  LET t == cardTimers[i]
  IN /\ t.kind = "mismatch"
     /\ faceUp' = (IF t.detached THEN faceUp ELSE faceUp \ t.pair)
     /\ flipped' = {}
     /\ isProcessing' = FALSE
     /\ cardTimers' = RemoveAt(cardTimers, i)
     /\ ev' = Event("mismatch", NoKey, IF t.detached THEN "stale" ELSE "current")
     /\ UNCHANGED <<cards, matched, moves, totalPoints>>

\* The 800 ms callback of animateStoneTocairn: addPointToCairn()
cairnStoneCallback(i) ==
  LET t == cardTimers[i]
  IN /\ t.kind = "stone"
     /\ addPointToCairn
     /\ cardTimers' = RemoveAt(cardTimers, i)
     /\ ev' = Event("stone", NoKey, IF t.detached THEN "stale" ELSE "current")
     /\ UNCHANGED <<cards, flipped, matched, moves, isProcessing, faceUp>>

\* resetGame2Board(): CardMatchingGame.reset(), then render() with a new shuffle
resetGame2Board ==
  /\ flipped' = {} /\ matched' = {} /\ moves' = 0
  /\ isProcessing' = FALSE
  /\ \E s \in 1..Len(Shuffles) : cards' = Shuffles[s]
  /\ faceUp' = {}
  /\ cardTimers' = Detach(cardTimers)
  /\ ev' = Event("resetGame2Board", NoKey, "ok")
  /\ UNCHANGED totalPoints

FlipClick ==
  /\ \E index \in FlipKeys : flipCard(index)
  /\ UNCHANGED <<outsideGame2, disturbances>>

CardFires(i) == CardCanFire(i) /\ UNCHANGED <<outsideGame2, disturbances>>

MatchFires == \E i \in 1..Len(cardTimers) : CardFires(i) /\ matchCallback(i)
MismatchFires == \E i \in 1..Len(cardTimers) : CardFires(i) /\ mismatchCallback(i)
CairnStoneFires == \E i \in 1..Len(cardTimers) : CardFires(i) /\ cairnStoneCallback(i)

\* The restart button of Game 2
Restart ==
  /\ disturbances < MaxRestarts
  /\ disturbances' = disturbances + 1
  /\ resetGame2Board
  /\ UNCHANGED outsideGame2

\* Flips and the callbacks they schedule.
NextCards == FlipClick \/ MatchFires \/ MismatchFires \/ CairnStoneFires
SpecCards == InitCards /\ [][NextCards]_vars

\* The same with the restart button.
NextCardsRestart == FlipClick \/ MatchFires \/ MismatchFires \/ CairnStoneFires \/ Restart
SpecCardsRestart == InitCards /\ [][NextCardsRestart]_vars

(***************************************************************************)
(* Properties                                                              *)
(***************************************************************************)
\* The step is a call of clickHexTile that placed a stone.
Accepts == ev'.op = "clickHexTile" /\ ev'.result # "rejected"

\* The step is a call of clickHexTile that returned at a guard.
Rejects == ev'.op = "clickHexTile" /\ ev'.result = "rejected"

\* The step ran Game1Board.reset().
Resets == ev'.op \in {"roundReset", "escape", "resetGame1Round"}

\* Callbacks of this round's animateTurnWiggleJump that have not run yet.
HoldTimers == {i \in 1..Len(timers) :
                 timers[i].kind \in {"turn", "wiggle", "jump"} /\ ~timers[i].stale}

\* C1: with clicks and the moves (and round ends) they trigger as the only
\* operations, the lobster's square never holds a stone.
AgentOffObstaclesInPlay == hash(lobster) \notin blockedSet

\* C1 witness: a move triggered by an accepted placement has been applied.
AgentMovedInPlay ==
  /\ ev.op = "wiggle"
  /\ lobster # spawnLobster
  /\ hash(lobster) \notin blockedSet

\* C2: while callbacks of an ordinary move's animation are pending, every
\* clickHexTile call is rejected and leaves the stones and the lobster alone,
\* whatever clicks, callbacks and togglePause calls came before.
HoldRejectsClicks ==
  [][(\E i \in HoldTimers : ~timers[i].escapedIfMove) /\ ev'.op = "clickHexTile"
       => Rejects /\ UNCHANGED board]_vars

\* C3: a callback scheduled before a reset() neither moves the lobster nor
\* changes a round flag nor modifies the board of the round the reset started.
StaleCallbacksInert ==
  [][ev'.result = "stale" => UNCHANGED <<board, flags>>]_vars

\* C4: in every reachable state, resets and pause toggles interleaved with
\* pending callbacks included, no stone lies on the lobster's square.
AgentNeverOnObstacle == \A key \in blockedSet : key # hash(lobster)

\* Reference for the route search: the keys next to a set of keys, and the
\* number of steps from a frontier to the nearest edge square reachable
\* without entering a stone (-1 if there is none), level by level.
Around(keys) ==
  {hash(getNeighbors(squareOfKey(k))[i]) : k \in keys, i \in 1..6} \cap boardSquares

RECURSIVE distanceFrom(_, _, _, _)
distanceFrom(frontier, seen, blocked, d) ==
  IF frontier = {} THEN -1
  ELSE IF \E k \in frontier : isEdge(squareOfKey(k)) THEN d
  ELSE distanceFrom(Around(frontier) \ (seen \cup frontier \cup blocked),
                    seen \cup frontier, blocked, d + 1)

EdgeDistance(position, blocked) == distanceFrom({hash(position)}, {}, blocked, 0)

\* C5: an accepted placement that leaves the lobster without any route to an
\* edge square resolves to a capture: gameOver is set and the lobster stays
\* where it was before the call.
CaptureWhenEnclosed ==
  [][Accepts /\ EdgeDistance(lobster, blockedSet') = -1
       => ev'.result = "captured" /\ gameOver' /\ lobster' = lobster]_vars

\* C5 witness: a placement has just enclosed the lobster and captured it.
CapturedEnclosed ==
  /\ ev.op = "clickHexTile" /\ ev.result = "captured"
  /\ gameOver
  /\ EdgeDistance(lobster, blockedSet) = -1

\* C6: once a placement resolved to a move onto an edge square, no placement
\* is accepted until the round is escaping, and the round starts escaping
\* with the lobster on an edge square.
EscapeUninterrupted ==
  [][/\ (\E i \in HoldTimers : timers[i].escapedIfMove) /\ ev'.op = "clickHexTile"
          => Rejects
     /\ ~isEscaping /\ isEscaping' => isEdge(lobster')]_vars

\* The round is not awaiting input: captured, escaped, or in an animation hold.
RoundBusy == gameOver \/ isEscaping \/ HoldTimers # {}

\* C8: a placement is accepted only on a square without a stone that is not
\* the lobster's, in a round that awaits input; a rejected placement changes
\* neither the stones nor the lobster nor the round flags.
PlacementGuarded ==
  [][/\ Accepts => /\ ~RoundBusy
                   /\ ev'.key \notin blockedSet
                   /\ ev'.key # hash(lobster)
     /\ Rejects => UNCHANGED <<board, flags>>]_vars

\* C9: while the round is captured or escaped, no placement is accepted and
\* neither the stones nor the lobster's position change, except by reset().
TerminalRoundFrozen ==
  [][(gameOver \/ isEscaping) /\ ~Resets => ~Accepts /\ UNCHANGED board]_vars

\* C10: between the route computation of an accepted placement and the
\* position update it scheduled, the stones stay as the computation saw them
\* (no further placement is accepted).
OnePlacementPerMove ==
  [][(\E i \in HoldTimers : timers[i].kind \in {"turn", "wiggle"}) /\ ~Resets
       => blockedSet' = blockedSet]_vars

\* C7: whenever an edge square can be reached from the lobster's square,
\* findShortestEscapePath returns a route, and its number of steps is the
\* distance to the nearest reachable edge square.
RouteIsShortest ==
  \A d \in {EdgeDistance(lobster, blockedSet)} :
    \A route \in {findShortestEscapePath(lobster, blockedSet)} :
      d # -1 => route.found /\ Len(route.path) - 1 = d

\* C7 witness: stones next to the lobster force a route longer than the
\* route from the spawn square on an open board, and the search finds one.
RouteAroundStones ==
  /\ ev.op = "add"
  /\ EdgeDistance(lobster, blockedSet) > gridHeight - 1 - spawnLobster.y
  /\ findShortestEscapePath(lobster, blockedSet).found

\* C11: a clickHexTile call on a square that already holds a stone is
\* rejected and leaves the stones as the first placement left them.
SecondPlacementRejected ==
  [][\A key \in ClickKeys :
       key \in blockedSet /\ clickHexTile(key) => Rejects /\ UNCHANGED blockedSet]_vars

\* C11 witness: the round awaits input, the lobster is on none of the squares
\* the player clicks, and a click was rejected: it was a click on a square
\* that holds a stone.
PlacedTwice ==
  /\ ev.op = "clickHexTile" /\ ev.result = "rejected"
  /\ ~clickGuard
  /\ hash(lobster) \notin ClickKeys
  /\ blockedSet \cap ClickKeys # {}

\* C12: a clickHexTile call on a coordinate outside the grid is rejected, so
\* no key outside the grid ever enters the stones.
StonesOnTheGrid == blockedSet \subseteq boardSquares

\* The state is the one a reset() (or the constructor) left.
FreshRound == ev.op \in {"new", "roundReset", "escape", "resetGame1Round"}

\* C13: after the constructor and after every reset() the stones are exactly
\* rockCount distinct squares, whatever the random draws were.
StoneCountAfterReset == FreshRound => Cardinality(blockedSet) = rockCount

\* C14: right after the constructor or a reset() the lobster is on the spawn
\* square (floor(width / 2), floor(height / 2)), all round flags are clear,
\* every stone is on the grid, and neither the lobster's square nor the
\* centre square holds a stone.
ResetLeavesFreshRound ==
  FreshRound =>
    /\ lobster = [x |-> gridWidth \div 2, y |-> gridHeight \div 2]
    /\ ~(gameOver \/ gameLost \/ isAnimating \/ isEscaping \/ isOnEdge)
    /\ \A key \in blockedSet : key[1] \in 0..(gridWidth - 1) /\ key[2] \in 0..(gridHeight - 1)
    /\ <<lobster.x, lobster.y>> \notin blockedSet
    /\ <<gridWidth \div 2, gridHeight \div 2>> \notin blockedSet

\* C14 witness: resetGame1Round() ran while callbacks of the round before
\* were pending and the game was paused.
ResetWhilePending ==
  /\ ev.op = "resetGame1Round"
  /\ timers # <<>>
  /\ gamePaused

\* C15: except by reset() no operation removes a stone; an accepted placement
\* adds the clicked square, which held no stone, and nothing else, and leaves
\* the lobster where it is; every other operation leaves the stones alone.
StonesOnlyGrow ==
  [][~Resets =>
       /\ blockedSet \subseteq blockedSet'
       /\ Accepts => /\ ev'.key \notin blockedSet
                     /\ blockedSet' = blockedSet \cup {ev'.key}
                     /\ lobster' = lobster
       /\ ~Accepts => blockedSet' = blockedSet]_vars

\* C15 witness: a placement was accepted and its move is scheduled, not made.
PlacedNotMoved ==
  /\ ev.op = "clickHexTile" /\ ev.result = "move"
  /\ ev.key \in blockedSet
  /\ \E i \in 1..Len(timers) : timers[i].kind = "turn" /\ timers[i].nextPos # lobster

\* C16: getNextStep reports a capture (no next square) exactly when there is
\* no route or the route has at most one square; otherwise its next square is
\* the second square of the route, and its escape flag is set exactly when
\* that square is in column 0 or width - 1 or in row 0 or height - 1.
NextStepFromRoute ==
  \A route \in {findShortestEscapePath(lobster, blockedSet)} :
    \A step \in {getNextStep(lobster, blockedSet)} :
      /\ step.captured <=> (~route.found \/ Len(route.path) <= 1)
      /\ step.captured => step.nextPos = NoKey /\ ~step.escapedIfMove
      /\ ~step.captured =>
           /\ step.nextPos = route.path[2]
           /\ step.escapedIfMove <=>
                \/ step.nextPos.x \in {0, gridWidth - 1}
                \/ step.nextPos.y \in {0, gridHeight - 1}

\* C16 witness: the last free square next to the lobster got a stone, there
\* is no route, and getNextStep reports the capture.
NoRouteNoStep ==
  /\ ev.op = "add"
  /\ ~findShortestEscapePath(lobster, blockedSet).found
  /\ getNextStep(lobster, blockedSet).captured

\* Reference for the tie-break.  The squares by their distance to the edge:
\* the first set holds the free edge squares, the next one the free squares
\* next to them, and so on.
RECURSIVE edgeLevels(_, _, _)
edgeLevels(frontier, seen, blocked) ==
  IF frontier = {} THEN <<>>
  ELSE <<frontier>> \o edgeLevels(Around(frontier) \ (seen \cup frontier \cup blocked),
                                  seen \cup frontier, blocked)

EdgeLevels(position, blocked) ==
  edgeLevels({k \in boardSquares \ (blocked \ {hash(position)}) : isEdge(squareOfKey(k))},
             {}, blocked \ {hash(position)})

\* The offset table of a row, in the order the route search is to follow.
TieBreakOffsets(y) ==
  IF y % 2 = 1
  THEN << <<-1, 0>>, <<1, 0>>, <<0, -1>>, <<1, -1>>, <<0, 1>>, <<1, 1>> >>
  ELSE << <<-1, 0>>, <<1, 0>>, <<-1, -1>>, <<0, -1>>, <<-1, 1>>, <<0, 1>> >>

\* The numbers of the table entries that lead from key one level down.
Downhill(key, k, levels) ==
  {i \in 1..6 : <<key[1] + TieBreakOffsets(key[2])[i][1],
                  key[2] + TieBreakOffsets(key[2])[i][2]>> \in levels[k - 1]}

\* From a square of level k to the edge, always by the first table entry that
\* leads one level down: the first shortest route in table order.
RECURSIVE firstRoute(_, _, _)
firstRoute(key, k, levels) ==
  IF k = 1 THEN <<squareOfKey(key)>>
  ELSE \* the smallest entry number
       LET i == CHOOSE n \in Downhill(key, k, levels) :
                  \A m \in Downhill(key, k, levels) : n <= m
       IN <<squareOfKey(key)>> \o
          firstRoute(<<key[1] + TieBreakOffsets(key[2])[i][1],
                       key[2] + TieBreakOffsets(key[2])[i][2]>>, k - 1, levels)

\* C17: the route returned is, among the shortest routes, the first in the
\* order of the offset table of each row; it is a function of the lobster's
\* square and the stones alone.
RouteIsFirstInTableOrder ==
  \A levels \in {EdgeLevels(lobster, blockedSet)} :
    \A k \in {n \in 1..Len(levels) : hash(lobster) \in levels[n]} :
      findShortestEscapePath(lobster, blockedSet).path = firstRoute(hash(lobster), k, levels)

\* C17 witness: after a placement several table entries lead from the
\* lobster's square to the edge equally fast, and the search returns a route.
SeveralShortestRoutes ==
  /\ ev.op = "add"
  /\ findShortestEscapePath(lobster, blockedSet).found
  /\ \E levels \in {EdgeLevels(lobster, blockedSet)} :
       \E k \in 2..Len(levels) :
         /\ hash(lobster) \in levels[k]
         /\ Cardinality(Downhill(hash(lobster), k, levels)) > 1

CapturedWhenSurrounded ==
  ev.op = "add" /\ ~isEdge(lobster) =>
    \A nbrs \in {Around({hash(lobster)})} :
      /\ nbrs \subseteq blockedSet => getNextStep(lobster, blockedSet).captured
      /\ blockedSet \subseteq nbrs /\ blockedSet # nbrs
           => ~getNextStep(lobster, blockedSet).captured
      /\ \A free \in nbrs : ~getNextStep(lobster, nbrs \ {free}).captured

\* C19 witness: the stone just placed is on the last free neighbour of the
\* lobster's square.
LastNeighbourBlocked ==
  /\ ev.op = "add" /\ ~isEdge(lobster)
  /\ Around({hash(lobster)}) \subseteq blockedSet
  /\ getNextStep(lobster, blockedSet).captured

\* C20: after a placement resolved to an ordinary move, the round does not
\* accept input again until the position update and the last callback of the
\* animation have run: while one of these callbacks is pending and the game
\* is not paused, the guard of clickHexTile is closed.
InputWaitsForMove ==
  (\E i \in HoldTimers : ~timers[i].escapedIfMove) /\ ~gamePaused => clickGuard

\* Capture sequences that have not added their point yet.
PendingPoints ==
  Cardinality({i \in 1..Len(timers) : timers[i].kind \in {"stone", "animationend"}})

RoundRenewed ==
  /\ ev.op \in {"roundReset", "escape"}
  /\ ~clickGuard
  /\ lobster = spawnLobster

\* C22: with callbacks that fire, a captured round leads to the point being
\* added and then to a reset after which input is accepted, and an escaping
\* round leads to such a reset as well.
TerminalRoundRenews ==
  /\ \A p \in 0..(MaxPoints - 1) :
       (ev.op = "clickHexTile" /\ ev.result = "captured" /\ totalPoints = p)
         ~> (RoundRenewed /\ ev.op = "roundReset" /\ totalPoints = p + 1)
  /\ isEscaping ~> (RoundRenewed /\ ev.op = "escape")

\* C22 witness: the reset at the end of a capture sequence has run, the
\* point is counted and the new board awaits input.
RenewedAfterCapture ==
  RoundRenewed /\ ev.op = "roundReset" /\ totalPoints = 1 /\ timers = <<>>

\* C27: from the togglePause call that pauses the game to the one that
\* resumes it, the lobster stays on its square and no placement is accepted,
\* whatever callbacks fire and whether or not the round is reset meanwhile.
PauseFreezesBoard ==
  [][gamePaused /\ gamePaused' => lobster' = lobster /\ ~Accepts]_vars

\* Two squares are neighbours on the offset grid: side by side in a row, or
\* in adjacent rows with the column shifted right from an odd row and left
\* from an even row.
HexAdjacent(a, b) ==
  \/ a.y = b.y /\ (b.x - a.x) \in {-1, 1}
  \/ /\ (b.y - a.y) \in {-1, 1}
     /\ (b.x - a.x) \in (IF a.y % 2 = 1 THEN {0, 1} ELSE {-1, 0})

\* C29: a route returned by findShortestEscapePath starts on the lobster's
\* square, goes from each square to a neighbour of it, stays on the board
\* and, after the first square, off the stones, ends on an edge square and
\* has no edge square before its end.
RouteWellFormed ==
  \A route \in {findShortestEscapePath(lobster, blockedSet)} :
    route.found =>
      \A n \in {Len(route.path)} :
        /\ n >= 1
        /\ route.path[1] = lobster
        /\ \A i \in 1..(n - 1) : HexAdjacent(route.path[i], route.path[i + 1])
        /\ \A i \in 1..n : hash(route.path[i]) \in boardSquares
        /\ \A i \in 2..n : hash(route.path[i]) \notin blockedSet
        /\ isEdge(route.path[n])
        /\ \A i \in 1..(n - 1) : ~isEdge(route.path[i])

\* C29 witness: after a placement the route has at least three squares and
\* passes a square next to a stone.
RoutePassesStones ==
  /\ ev.op = "add"
  /\ \E route \in {findShortestEscapePath(lobster, blockedSet)} :
       /\ route.found /\ Len(route.path) >= 3
       /\ \E i \in 2..Len(route.path) :
            Around({hash(route.path[i])}) \cap blockedSet # {}

\* C30: within a round the lobster's position changes only by one step: the
\* new square is one of the six neighbours of the old one, on the board and
\* without a stone, and it is the step getNextStep computes for the stones
\* the board holds.
OneStepPerTurn ==
  [][lobster' # lobster /\ ~Resets =>
       /\ \E i \in 1..6 : getNeighbors(lobster)[i] = lobster'
       /\ hash(lobster') \in boardSquares
       /\ hash(lobster') \notin blockedSet'
       /\ lobster' = lobsterNextStep(lobster, blockedSet).nextPos]_vars

TutorialStepInSync ==
  /\ [](currentState = "PREGAME_TUTORIAL" => layoutTutorialStep = layoutScreen)
  /\ [][ev'.op = "advanceLayoutTutorialStep" =>
          \E i \in 1..4 : /\ layoutScreen = LayoutSteps[i]
                          /\ layoutScreen' = LayoutSteps[i + 1]
                          /\ layoutTutorialStep' = LayoutSteps[i + 1]]_vars

\* C24 witness: Back was pressed on step 2.5 (reached by three Forward
\* presses) and step 2 is on screen.
BackOnLayoutTutorial ==
  /\ currentState = "PREGAME_TUTORIAL"
  /\ ev.op = "renderGameIntro_LayoutStep" /\ ev.result = "back"
  /\ layoutScreen = 20

\* C28: while the game is paused timeRemaining does not change and no
\* interval ticks; a togglePause call keeps timeRemaining, and after the one
\* that resumes the game exactly one interval ticks, however many toggles
\* came before.
PauseFreezesCountdown ==
  /\ [](gamePaused => intervals = 0)
  /\ [](intervals <= 1)
  /\ [][/\ gamePaused /\ gamePaused' => timeRemaining' = timeRemaining
        /\ ev'.op = "togglePause" => timeRemaining' = timeRemaining
        /\ ev'.op = "togglePause" /\ ~gamePaused' => intervals' = 1]_vars

\* C28 witness: the game has just been resumed part-way through the
\* countdown, and one interval ticks.
CountdownResumed ==
  /\ ev.op = "togglePause" /\ ev.result = "resumed"
  /\ timeRemaining \in 1..(gameDuration - 1)
  /\ intervals = 1

\* C25: a flipCard call on a card that is face-up or matched, or made while
\* a pair is being processed, changes nothing of the card game; at most two
\* cards that are not matched are face-up; and the move counter goes up by
\* one exactly when a flip completes a pair.
ClickProtection ==
  /\ [](Cardinality(faceUp \ matched) <= 2)
  /\ [][/\ \A index \in FlipKeys :
             (isProcessing \/ index \in faceUp \/ index \in matched) /\ flipCard(index)
               => UNCHANGED cardGame
        /\ ev'.op # "resetGame2Board" =>
             /\ ev'.op = "flipCard" /\ ev'.result = "pair" => moves' = moves + 1
             /\ ~(ev'.op = "flipCard" /\ ev'.result = "pair") => moves' = moves]_vars

\* The card game as reset() leaves it.
CardsFresh == flipped = {} /\ matched = {} /\ moves = 0 /\ ~isProcessing

\* C26: resetGame2Board, whenever it is called, leaves the flipped and the
\* matched set empty, the move counter at 0 and input accepted; the game
\* stays like that until the player flips a card; and a callback scheduled
\* before the restart neither marks a card matched nor clears a flip.
RestartResetsEverything ==
  /\ [](ev.op = "resetGame2Board" => CardsFresh)
  /\ [][/\ CardsFresh /\ ev'.op # "flipCard" => CardsFresh'
        /\ ev'.result = "stale" => UNCHANGED <<flipped, matched, isProcessing>>]_vars

\* C31: the lobster is on an edge square only while the round rejects
\* placements (the spawn square is no edge square, and the callback that ends
\* the hold of a move onto an edge starts the escape), so no placement is
\* resolved from an edge square and none is turned into a capture there.
AgentOffEdgeInPlay ==
  /\ ~isEdge(spawnLobster)
  /\ isEdge(lobster) => clickGuard
  /\ (ev.op = "clickHexTile" /\ ev.result = "captured") => ~isEdge(lobster)

\* The squares of the board reached from a set of keys by getNeighbors.
RECURSIVE gridReach(_, _)
gridReach(frontier, seen) ==
  IF frontier = {} THEN seen
  ELSE gridReach(Around(frontier) \ (seen \cup frontier), seen \cup frontier)

\* C32: on the board without stones every neighbour of a square that is on
\* the board has that square among its own neighbours, whatever the parity of
\* the two rows, and every square of the board is reached from every square
\* by going from neighbour to neighbour.
GridHasNoHoles ==
  /\ \A i \in 1..6 : \A n \in {getNeighbors(lobster)[i]} :
       hash(n) \in boardSquares => \E j \in 1..6 : getNeighbors(n)[j] = lobster
  /\ gridReach({hash(lobster)}, {}) = boardSquares

\* C32 witness: a neighbour in a row of the other parity was visited and it
\* is a corner of the board.
NeighbourAcrossRows ==
  /\ ev.op = "getNeighbors"
  /\ ev.key[2] % 2 # lobster.y % 2
  /\ lobster.x \in {0, gridWidth - 1} /\ lobster.y \in {0, gridHeight - 1}

\* C33: a round that is neither captured nor escaping is replaced only by
\* resetGame1Round(), and a callback scheduled in a round that a reset has
\* replaced neither resets the board, nor adds a point, nor starts an escape.
RoundReplacedOnRequest ==
  [][/\ (Resets /\ ~gameOver /\ ~isEscaping) => ev'.op = "resetGame1Round"
     /\ ev'.result = "stale" =>
          /\ ~Resets
          /\ totalPoints' = totalPoints
          /\ isEscaping' = isEscaping]_vars

\* The squares of the grid that hold neither a stone nor the lobster.
FreeCells == Cardinality(boardSquares \ (blockedSet \cup {hash(lobster)}))

TimerExpiresOnce ==
  /\ [](timeRemaining >= 0)
  /\ [][flowTimeouts' > flowTimeouts => timeRemaining = 1]_vars
  /\ [][flowTimeouts' < flowTimeouts => currentState \in {"GAME1", "GAME2_READY"}]_vars

\* C36: in every state the matched cards split into pairs of cards with the
\* same name: with each matched index the other card of the current deck
\* that has its name is matched too.
MatchedInPairs ==
  \A i \in matched : \E j \in matched \ {i} : cards[i] = cards[j]

\* C37: at most one tutorial animation interval is ticking, it is the one of
\* the current tutorial board, and none is ticking unless step 1 of the
\* Game 1 tutorial is on screen.
OneTutorialAnimation ==
  /\ tutorialIntervals <= 1
  /\ tutorialIntervals = (IF tutorialOwn THEN 1 ELSE 0)
  /\ tutorialIntervals > 0 => currentState = "GAME1_TUTORIAL" /\ game1TutorialStep = 0
====
